---- MODULE Spec2Model ----
(***************************************************************************)
(* Model of the audio flash-card programs: gui_flash_cards.py (name         *)
(* normalisation, lookup of the native MP3 of a word, recording and lookup  *)
(* of the user's own WAV) and generate_audio.py (creation of the MP3s).     *)
(*                                                                          *)
(* A string is a sequence of characters.  A character is written as a      *)
(* short token:                                                             *)
(*   "ye" "YE"     Cyrillic small / capital IE (U+0435 / U+0415)            *)
(*   "yo" "YO"     Cyrillic small / capital IO (U+0451 / U+0401),           *)
(*                 precomposed                                              *)
(*   "acute"       combining acute accent, the stress mark (U+0301)         *)
(*   "diaer"       combining diaeresis (U+0308)                             *)
(*   "dot" "qm" "hyphen"   '.', '?', '-'                                    *)
(*   "slash" "bslash"      '/', '\'                                         *)
(*   "sp" "tab"    ' ' and the tab character                                *)
(*   "mp3" "MP3" "wav" "WAV" "txt"   the letters of an extension, as a unit *)
(*   "_your_voice"         the literal suffix record_audio appends          *)
(***************************************************************************)
EXTENDS Integers, Sequences, FiniteSets, TLC

\* ------------------------------------------------------------------ bounds

\* Longest string given to a normalizer or looked up by SpecFind.
MaxLen == 3

\* Longest display word of a row of the word list.
MaxWord == 2

\* Longest filename hint of a row of the word list.
MaxHint == 1

\* Longest stem of a file somebody other than generate_audio.py put in a folder.
MaxStem == 1

\* Most files a folder holds.
MaxFiles == 2

\* The modification times of the model run from -MaxTime to MaxTime.
MaxTime == 1

\* ------------------------------------------------------- character classes

\* unicodedata.category(c) == 'Mn'
Mn == {"acute", "diaer"}

\* The character class of re.sub(r'[?!:;,"\'.…—–-]', '', ...); "qm" stands
\* for the members other than the period and the hyphen.
Punct == {"qm", "dot", "hyphen"}

\* What the regular expression \s and str.strip() treat as whitespace.
Whitespace == {"sp", "tab"}

\* The characters the strings of the model are made of.
Alphabet == {"ye", "YE", "yo", "acute", "dot", "hyphen", "slash", "bslash", "sp"}

\* The value of a result that has not been computed yet; like None it is
\* written as a sequence no string of the model equals.
NotRun == <<"NotRun">>

\* Python's None.
None == <<"None">>

\* The strings over the characters cs of length at most n.
StringsUpTo(cs, n) == UNION {[1..k -> cs] : k \in 0..n}

\* The subsets of S of at most n elements.
SubsetsUpTo(S, n) == UNION {{{f[i] : i \in 1..k} : f \in [1..k -> S]} : k \in 0..n}

\* ------------------------------------------------------ string primitives

\* unicodedata.normalize('NFD', c) of one character: the precomposed IO is
\* IE followed by the combining diaeresis; the other characters of the
\* alphabet have no decomposition.
Decompose(c) == IF c = "yo" THEN <<"ye", "diaer">> ELSE IF c = "YO" THEN <<"YE", "diaer">> ELSE <<c>>

\* unicodedata.normalize('NFD', text).  Both combining marks of the alphabet
\* have the same combining class, so no mark is reordered.
RECURSIVE nfd(_)
nfd(text) == IF text = <<>> THEN <<>> ELSE Decompose(Head(text)) \o nfd(Tail(text))

\* ''.join(c for c in ... if unicodedata.category(c) != 'Mn')
strip_marks(text) == SelectSeq(text, LAMBDA c : c \notin Mn)

\* .replace("ё", "е").replace("Ё", "Е")
replace_yo(text) == [i \in 1..Len(text) |-> IF text[i] = "yo" THEN "ye" ELSE IF text[i] = "YO" THEN "YE" ELSE text[i]]

\* re.sub(r'[?!:;,"\'.…—–-]', '', text)
drop_punct(text) == SelectSeq(text, LAMBDA c : c \notin Punct)

\* .replace('/', '-').replace('\\', '-')
replace_seps(text) == [i \in 1..Len(text) |-> IF text[i] \in {"slash", "bslash"} THEN "hyphen" ELSE text[i]]

\* re.sub(r'\s+', ' ', text): every maximal run of whitespace becomes one space.
RECURSIVE collapse_ws(_)
collapse_ws(text) ==
    IF text = <<>> THEN <<>>
    ELSE IF Head(text) \in Whitespace
         THEN IF Len(text) > 1 /\ text[2] \in Whitespace
              THEN collapse_ws(Tail(text))
              ELSE <<"sp">> \o collapse_ws(Tail(text))
         ELSE <<Head(text)>> \o collapse_ws(Tail(text))

\* str.lstrip()
RECURSIVE lstrip(_)
lstrip(text) == IF text # <<>> /\ Head(text) \in Whitespace THEN lstrip(Tail(text)) ELSE text

\* str.rstrip()
RECURSIVE rstrip(_)
rstrip(text) == IF text # <<>> /\ text[Len(text)] \in Whitespace THEN rstrip(SubSeq(text, 1, Len(text) - 1)) ELSE text

\* str.strip()
strip(text) == rstrip(lstrip(text))

\* str.lower() of one character.
LowerChar(c) == CASE c = "YE" -> "ye" [] c = "YO" -> "yo" [] c = "MP3" -> "mp3" [] c = "WAV" -> "wav" [] OTHER -> c

\* str.lower()
lower(text) == [i \in 1..Len(text) |-> LowerChar(text[i])]

\* str.startswith(prefix)
startswith(text, prefix) == Len(prefix) <= Len(text) /\ SubSeq(text, 1, Len(prefix)) = prefix

\* str.endswith(suffix)
endswith(text, suffix) == Len(suffix) <= Len(text) /\ SubSeq(text, Len(text) - Len(suffix) + 1, Len(text)) = suffix

\* The greatest index of character c in text, 0 when there is none
\* (str.rfind, counted from 1).
rfind(text, c) == LET at == {i \in 1..Len(text) : text[i] = c} IN IF at = {} THEN 0 ELSE CHOOSE i \in at : \A j \in at : j <= i

\* os.path.splitext(p) on a POSIX system: <<root, ext>>.  The extension
\* starts at the last period that follows the last '/', unless only periods
\* stand between that '/' and it (a leading period starts no extension).
splitext(p) ==
    LET sepIndex == rfind(p, "slash")
        dotIndex == rfind(p, "dot")
    IN  IF dotIndex > sepIndex /\ \E i \in (sepIndex + 1)..(dotIndex - 1) : p[i] # "dot"
        THEN <<SubSeq(p, 1, dotIndex - 1), SubSeq(p, dotIndex, Len(p))>>
        ELSE <<p, <<>>>>

\* ------------------------------------------------------------ normalizers

\* gui_flash_cards.sanitize_filename
sanitize_filename(text) ==
    LET no_accents == strip_marks(nfd(text))
        yo_fixed == replace_yo(no_accents)
        cleaned == replace_seps(drop_punct(yo_fixed))
    IN  strip(collapse_ws(cleaned))

\* The generator's copy, had it drifted from the GUI's: the combining marks
\* are kept.
gen_sanitize_keeps_marks(text) ==
    LET yo_fixed == replace_yo(nfd(text))
        cleaned0 == drop_punct(yo_fixed)
        cleaned1 == replace_seps(cleaned0)
        cleaned2 == strip(collapse_ws(cleaned1))
    IN  cleaned2

\* generate_audio.sanitize_filename, the copy the generator uses
gen_sanitize_filename(text) ==
    LET no_accents == strip_marks(nfd(text))
        yo_fixed == replace_yo(no_accents)
        cleaned0 == drop_punct(yo_fixed)
        cleaned1 == replace_seps(cleaned0)
        cleaned2 == strip(collapse_ws(cleaned1))
    IN  cleaned2

\* gui_flash_cards.norm_base
norm_base(name) ==
    LET base0 == splitext(name)[1]
        base1 == nfd(base0)
        base2 == strip_marks(base1)
        base3 == replace_yo(base2)
        base4 == drop_punct(base3)
        base5 == strip(collapse_ws(base4))
    IN  lower(base5)

\* The normalization of the specification (section 4.1, steps 1 to 7), the
\* CanonicalKey two equivalent strings share.
CanonicalKey(text) ==
    LET step1 == nfd(text)
        step2 == strip_marks(step1)
        step3 == replace_yo(step2)
        step4 == drop_punct(step3)
        step5 == replace_seps(step4)
        step6 == strip(collapse_ws(step5))
    IN  lower(step6)

\* ------------------------------------------------------------------ state

VARIABLES
    norm_fn,       \* the normalizer under test
    norm_in,       \* its input
    norm_once,     \* normalizer(input), NotRun before the call
    norm_twice,    \* normalizer(normalizer(input)), NotRun before the call
    audio_isdir,   \* os.path.isdir(AUDIO_FOLDER)
    audio_files,   \* the names of the files in AUDIO_FOLDER
    gen_saved,     \* the names among them that generate_audio.py saved
    sel_word,      \* sel_word: the Russian word of the selected row
    sel_filename,  \* sel_filename: its filename hint, "" when the row has none
    played,        \* the path the last play_audio played, None after its warning
    rec_isdir,     \* os.path.isdir(RECORDINGS_FOLDER)
    rec_listing,   \* os.listdir(RECORDINGS_FOLDER): the file names, in its order
    rec_mtime,     \* os.path.getmtime of each of these files
    user_found     \* what the last find_latest_user_recording returned

norm_vars == <<norm_fn, norm_in, norm_once, norm_twice>>
audio_vars == <<audio_isdir, audio_files, gen_saved>>
sel_vars == <<sel_word, sel_filename>>
rec_vars == <<rec_isdir, rec_listing, rec_mtime>>
vars == <<norm_vars, audio_vars, sel_vars, played, rec_vars, user_found>>

\* ------------------------------------------------------------- file names

\* f"{stem}.mp3"
Mp3(stem) == stem \o <<"dot", "mp3">>

\* Whether name passes the filter of find_audio_path, f.lower().endswith(".mp3").
IsMp3(name) == endswith(lower(name), <<"dot", "mp3">>)

\* The stem of a file name with an extension: the name without its last
\* period and what follows it.
StemOf(name) == SubSeq(name, 1, Len(name) - 2)

\* os.path.join(AUDIO_FOLDER, name) is written name: every path of the model
\* is a file of one folder, named by its file name.
\* os.path.exists(os.path.join(AUDIO_FOLDER, name)).  AUDIO_FOLDER holds no
\* subfolder, so a name with a '/' in it names no file.
audio_exists(name) == audio_isdir /\ name \in audio_files

\* The orders in which os.listdir may enumerate the files of a folder: any.
Listings(files) == {l \in [1..Cardinality(files) -> files] : \A i, j \in 1..Cardinality(files) : l[i] = l[j] => i = j}

\* The index at which a for loop over a list returns: the least of the
\* indices at whose element its test succeeds, 0 when there is none.
FirstIndex(at) == IF at = {} THEN 0 ELSE CHOOSE i \in at : \A j \in at : i <= j

\* ------------------------------------------------------------- the lookup

\* gui_flash_cards.find_audio_path, listing being what os.listdir returns.
find_audio_path(display_word, listing) ==
    IF ~audio_isdir THEN None
    ELSE
    LET target_norm == norm_base(display_word)
        candidates == SelectSeq(listing, IsMp3)
        direct == Mp3(sanitize_filename(display_word))
        scan == FirstIndex({i \in 1..Len(candidates) : norm_base(candidates[i]) = target_norm})
        loose_target == SelectSeq(target_norm, LAMBDA c : c # "sp")
        loose == FirstIndex({i \in 1..Len(candidates) : SelectSeq(norm_base(candidates[i]), LAMBDA c : c # "sp") = loose_target})
    IN  IF audio_exists(direct) THEN direct
        ELSE IF scan # 0 THEN candidates[scan]
        ELSE IF loose # 0 THEN candidates[loose]
        ELSE None

\* play_audio, had it tried the sanitized hint before the hint as written.
play_audio_sanitized_first(display_word, filename_hint, listing) ==
    LET hinted == Mp3(filename_hint)
        hinted_sanitized == Mp3(sanitize_filename(filename_hint))
        path0 == IF filename_hint # <<>>
                 THEN IF audio_exists(hinted_sanitized) THEN hinted_sanitized
                      ELSE IF audio_exists(hinted) THEN hinted ELSE None
                 ELSE None
        path1 == IF path0 = None \/ ~audio_exists(path0) THEN find_audio_path(display_word, listing) ELSE path0
    IN  IF path1 = None \/ ~audio_exists(path1) THEN None ELSE path1

\* play_audio, had it tried the hint as written only.
play_audio_exact_only(display_word, filename_hint, listing) ==
    LET hinted == Mp3(filename_hint)
        path0 == IF filename_hint # <<>> /\ audio_exists(hinted) THEN hinted ELSE None
        path1 == IF path0 = None \/ ~audio_exists(path0) THEN find_audio_path(display_word, listing) ELSE path0
    IN  IF path1 = None \/ ~audio_exists(path1) THEN None ELSE path1

\* play_audio, had it taken the hinted path without asking whether it exists.
play_audio_unchecked(display_word, filename_hint, listing) ==
    IF filename_hint # <<>> THEN Mp3(filename_hint) ELSE find_audio_path(display_word, listing)

\* gui_flash_cards.play_audio up to the choice of the file it plays: the path
\* it hands to the player, None when it shows the "Missing audio" warning.
play_audio(display_word, filename_hint, listing) ==
    LET hinted == Mp3(filename_hint)
        hinted_sanitized == Mp3(sanitize_filename(filename_hint))
        path0 == IF filename_hint # <<>>
                 THEN IF audio_exists(hinted) THEN hinted
                      ELSE IF audio_exists(hinted_sanitized) THEN hinted_sanitized ELSE None
                 ELSE None
        path1 == IF path0 = None \/ ~audio_exists(path0) THEN find_audio_path(display_word, listing) ELSE path0
    IN  IF path1 = None \/ ~audio_exists(path1) THEN None ELSE path1

\* ------------------------------------------------- the user's recordings

\* latest_mtime = -1.0, the value find_latest_user_recording starts from
InitialMtime == -1

\* f"{base}_your_voice.wav", the file record_audio writes for display_word
RecName(display_word) == sanitize_filename(display_word) \o <<"_your_voice", "dot", "wav">>

\* The loop of find_latest_user_recording over what is left of the listing.
RECURSIVE latest_scan(_, _, _, _)
latest_scan(listing, base, latest_path, latest_mtime) ==
    IF listing = <<>> THEN latest_path
    ELSE
    LET fname == Head(listing)
        mtime == rec_mtime[fname]
    IN  IF ~endswith(lower(fname), <<"dot", "wav">>) THEN latest_scan(Tail(listing), base, latest_path, latest_mtime)
        ELSE IF ~startswith(splitext(fname)[1], base) THEN latest_scan(Tail(listing), base, latest_path, latest_mtime)
        ELSE IF mtime > latest_mtime THEN latest_scan(Tail(listing), base, fname, mtime)
        ELSE latest_scan(Tail(listing), base, latest_path, latest_mtime)

\* The loop, had it compared with >= : a later file of the same time wins.
RECURSIVE latest_scan_ge(_, _, _, _)
latest_scan_ge(listing, base, latest_path, latest_mtime) ==
    IF listing = <<>> THEN latest_path
    ELSE
    LET fname == Head(listing)
        mtime == rec_mtime[fname]
    IN  IF ~endswith(lower(fname), <<"dot", "wav">>) THEN latest_scan_ge(Tail(listing), base, latest_path, latest_mtime)
        ELSE IF ~startswith(splitext(fname)[1], base) THEN latest_scan_ge(Tail(listing), base, latest_path, latest_mtime)
        ELSE IF mtime >= latest_mtime THEN latest_scan_ge(Tail(listing), base, fname, mtime)
        ELSE latest_scan_ge(Tail(listing), base, latest_path, latest_mtime)

\* find_latest_user_recording with that loop.
find_latest_ge(display_word) ==
    IF ~rec_isdir THEN None
    ELSE latest_scan_ge(rec_listing, sanitize_filename(display_word), None, InitialMtime)

\* gui_flash_cards.find_latest_user_recording
find_latest_user_recording(display_word) ==
    IF ~rec_isdir THEN None
    ELSE latest_scan(rec_listing, sanitize_filename(display_word), None, InitialMtime)

\* ----------------------------------------------- the normalizers, applied

Normalizers == {"sanitize_filename", "norm_base", "generate_audio.sanitize_filename"}

\* The normalizer named fn applied to text.
Apply(fn, text) ==
    CASE fn = "sanitize_filename" -> sanitize_filename(text)
      [] fn = "norm_base" -> norm_base(text)
      [] fn = "generate_audio.sanitize_filename" -> gen_sanitize_filename(text)

\* No folder, no selection, nothing played: the state before any audio exists.
AudioIdle ==
    /\ audio_isdir = FALSE
    /\ audio_files = {}
    /\ gen_saved = {}
    /\ sel_word = <<>>
    /\ sel_filename = <<>>
    /\ played = NotRun

\* No recordings folder, nothing looked up in it.
RecIdle ==
    /\ rec_isdir = FALSE
    /\ rec_listing = <<>>
    /\ rec_mtime = <<>>
    /\ user_found = NotRun

NormIdle ==
    /\ norm_fn = "sanitize_filename"
    /\ norm_in = <<>>
    /\ norm_once = NotRun
    /\ norm_twice = NotRun

NormInit ==
    /\ norm_fn \in Normalizers
    /\ norm_in \in StringsUpTo(Alphabet, MaxLen)
    /\ norm_once = NotRun
    /\ norm_twice = NotRun
    /\ AudioIdle
    /\ RecIdle

\* A call of the normalizer on the input.
Normalize ==
    /\ norm_once = NotRun
    /\ norm_once' = Apply(norm_fn, norm_in)
    /\ UNCHANGED <<norm_fn, norm_in, norm_twice, audio_vars, sel_vars, played, rec_vars, user_found>>

\* A call of the normalizer on its own output.
Renormalize ==
    /\ norm_once # NotRun
    /\ norm_twice = NotRun
    /\ norm_twice' = Apply(norm_fn, norm_once)
    /\ UNCHANGED <<norm_fn, norm_in, norm_once, audio_vars, sel_vars, played, rec_vars, user_found>>

NormNext == Normalize \/ Renormalize

SpecNorm == NormInit /\ [][NormNext]_vars

\* C1: normalization is idempotent: for each normalizer of the code, applying
\* it to its own output yields that output again.
C1_Idempotent == norm_twice # NotRun => norm_twice = norm_once


\* ------------------------------------------------- the audio of the words

\* The characters of the display words of the word list.
WordChars == {"ye", "yo", "dot"}

\* The characters of the filename hints of the word list, and of the stems
\* of the files put into AUDIO_FOLDER by hand.
StemChars == {"ye", "YE", "yo"}

\* word_list.csv: a row with three columns has no filename hint, a row with
\* four has one.  A row is <<rus, filename>>.
Rows3 == {<<w, <<>>>> : w \in StringsUpTo(WordChars, MaxWord)}
Rows4 == {<<w, h>> : w \in StringsUpTo(WordChars, MaxHint), h \in StringsUpTo(StemChars, MaxHint) \ {<<>>}}
Rows == Rows3 \cup Rows4

\* The MP3 files somebody may put into AUDIO_FOLDER by hand.
HandNames == {Mp3(stem) : stem \in StringsUpTo(StemChars, MaxStem)}

\* Nothing is generated yet (AUDIO_FOLDER does not exist), and a row of the
\* word list is selected (on_select has set sel_word and sel_filename).
Init ==
    /\ NormIdle
    /\ audio_isdir = FALSE
    /\ audio_files = {}
    /\ gen_saved = {}
    /\ \E row \in Rows : sel_word = row[1] /\ sel_filename = row[2]
    /\ played = NotRun
    /\ RecIdle

\* generate_audio.py line 28: os.makedirs(AUDIO_DIR, exist_ok=True)
MakeDirs ==
    /\ ~audio_isdir
    /\ audio_isdir' = TRUE
    /\ played' = NotRun
    /\ UNCHANGED <<norm_vars, audio_files, gen_saved, sel_vars, rec_vars, user_found>>

\* One turn of the loop of generate_audio.py for the word rus: the file
\* sanitize_filename(rus) + ".mp3" is saved (tts.save overwrites).
GenerateAudio(rus) ==
    /\ audio_isdir
    /\ LET filename == Mp3(gen_sanitize_filename(rus))
       IN  /\ Cardinality(audio_files \cup {filename}) <= MaxFiles
           /\ audio_files' = audio_files \cup {filename}
           /\ gen_saved' = gen_saved \cup {filename}
    /\ played' = NotRun
    /\ UNCHANGED <<norm_vars, audio_isdir, sel_vars, rec_vars, user_found>>

\* Somebody puts a file into AUDIO_FOLDER by hand (a copy, a renamed file).
PutFile(name) ==
    /\ audio_isdir
    /\ name \notin audio_files
    /\ Cardinality(audio_files) < MaxFiles
    /\ audio_files' = audio_files \cup {name}
    /\ played' = NotRun
    /\ UNCHANGED <<norm_vars, audio_isdir, gen_saved, sel_vars, rec_vars, user_found>>

\* Somebody removes a file from AUDIO_FOLDER.
RemoveFile(name) ==
    /\ name \in audio_files
    /\ audio_files' = audio_files \ {name}
    /\ gen_saved' = gen_saved \ {name}
    /\ played' = NotRun
    /\ UNCHANGED <<norm_vars, audio_isdir, sel_vars, rec_vars, user_found>>

\* gui_flash_cards.do_play: play_audio(sel_word, sel_filename) once a word is
\* selected; os.listdir may enumerate the folder in any order.
DoPlay ==
    /\ sel_word # <<>>
    /\ \E listing \in Listings(audio_files) : played' = play_audio(sel_word, sel_filename, listing)
    /\ UNCHANGED <<norm_vars, audio_vars, sel_vars, rec_vars, user_found>>

Next ==
    \/ MakeDirs
    \/ GenerateAudio(sel_word)
    \/ \E name \in HandNames : PutFile(name)
    \/ \E name \in audio_files : RemoveFile(name)
    \/ DoPlay

Spec == Init /\ [][Next]_vars

\* C2: tier 1 wins: with a non-empty hint h and the file h + ".mp3" in the
\* folder, play_audio plays exactly that file, whatever else the folder holds.
C2_HintExactWins ==
    (played # NotRun /\ sel_filename # <<>> /\ audio_exists(Mp3(sel_filename)))
        => played = Mp3(sel_filename)

\* C2's case: the hinted file is played although the folder holds another
\* file that the sanitized hint or the display word matches.
C2_Witness ==
    /\ played # NotRun /\ sel_filename # <<>> /\ audio_exists(Mp3(sel_filename))
    /\ \E f \in audio_files \ {Mp3(sel_filename)} :
          \/ f = Mp3(sanitize_filename(sel_filename))
          \/ norm_base(f) = norm_base(sel_word)

\* C5 as stated: with a non-empty hint h and no file h + ".mp3", if the
\* normalized stem of some MP3 of the folder equals the normalized hint,
\* play_audio plays such a file.
C5_HintNormalizedTier ==
    LET like == {f \in audio_files : IsMp3(f) /\ CanonicalKey(StemOf(f)) = CanonicalKey(sel_filename)}
    IN  (played # NotRun /\ sel_filename # <<>> /\ audio_isdir /\ ~audio_exists(Mp3(sel_filename)) /\ like # {})
            => played \in like

\* C5, amended: with a non-empty hint h and no file h + ".mp3", if the file
\* sanitize_filename(h) + ".mp3" is in the folder, play_audio plays exactly
\* that file, whatever the lookup of the display word would find.
C5_HintSanitizedTier ==
    (played # NotRun /\ sel_filename # <<>> /\ ~audio_exists(Mp3(sel_filename)) /\ audio_exists(Mp3(sanitize_filename(sel_filename))))
        => played = Mp3(sanitize_filename(sel_filename))

\* C5's case: the sanitized hint names the file played, and the lookup of the
\* display word alone would have found another file.
C5_Witness ==
    /\ played # NotRun /\ sel_filename # <<>>
    /\ ~audio_exists(Mp3(sel_filename))
    /\ sanitize_filename(sel_filename) # sel_filename
    /\ played = Mp3(sanitize_filename(sel_filename))
    /\ \E listing \in Listings(audio_files) : find_audio_path(sel_word, listing) \notin {None, played}

\* C9: once generate_audio.py has saved the file of a word and as long as
\* the file is there, the lookup of that word (a row without a hint) finds
\* exactly that file, whatever else the folder holds.
C9_GenerateThenLookup ==
    (played # NotRun /\ sel_filename = <<>> /\ Mp3(gen_sanitize_filename(sel_word)) \in gen_saved)
        => played = Mp3(gen_sanitize_filename(sel_word))

\* C9's case: the generated file of a word that sanitizing changes is found
\* among other files, one of which the scan of the folder matches too.
C9_Witness ==
    /\ played # NotRun /\ sel_filename = <<>>
    /\ Mp3(gen_sanitize_filename(sel_word)) \in gen_saved
    /\ gen_sanitize_filename(sel_word) # sel_word
    /\ played = Mp3(gen_sanitize_filename(sel_word))
    /\ \E f \in audio_files \ {played} : norm_base(f) = norm_base(sel_word)

\* ------------------------------------- the lookup of a word, on its own

\* The characters of the display words SpecFind looks up.
FindChars == {"ye", "YE", "dot", "sp"}

\* The characters of the stems of the files SpecFind looks them up among.
FindStemChars == {"ye", "YE", "dot"}

\* The files of AUDIO_FOLDER in SpecFind: MP3s, and files the filter of
\* find_audio_path tells apart by their extension.
FindNames ==
    {Mp3(stem) : stem \in StringsUpTo(FindStemChars, MaxLen)}
        \cup {<<"ye", "dot", "MP3">>, <<"ye", "dot", "txt">>}

\* A folder of at most MaxFiles files, and a selected row without a hint.
FindInit ==
    /\ NormIdle
    /\ RecIdle
    /\ audio_isdir = TRUE
    /\ audio_files \in SubsetsUpTo(FindNames, MaxFiles)
    /\ gen_saved = {}
    /\ sel_word \in StringsUpTo(FindChars, MaxLen)
    /\ sel_filename = <<>>
    /\ played = NotRun

FindNext == DoPlay

SpecFind == FindInit /\ [][FindNext]_vars

\* C3: without a hint, if some MP3 of the folder has a stem equivalent to
\* the display word (the same CanonicalKey), the lookup returns a file.
C3_Completeness ==
    (played # NotRun /\ sel_filename = <<>>
        /\ \E f \in audio_files : IsMp3(f) /\ CanonicalKey(StemOf(f)) = CanonicalKey(sel_word))
        => played # None

\* C4: without a hint, a file the lookup returns has a stem equivalent to the
\* display word, exactly or once all whitespace is removed from both keys.
C4_NeverNearMiss ==
    (played \notin {NotRun, None} /\ sel_filename = <<>>)
        => LET stem_key == CanonicalKey(StemOf(played))
               word_key == CanonicalKey(sel_word)
           IN  \/ stem_key = word_key
               \/ SelectSeq(stem_key, LAMBDA c : c # "sp") = SelectSeq(word_key, LAMBDA c : c # "sp")

\* ------------------------------------------- an empty or missing folder

\* The rows SpecNoMatch selects: any display word, with or without a hint.
NoMatchRows == {<<w, h>> : w \in StringsUpTo(Alphabet, MaxWord), h \in StringsUpTo(StemChars, MaxHint)}

\* gui_flash_cards.do_play_user: play_user_recording(sel_word) once a word
\* is selected, up to the choice of the file it plays.
DoPlayUser ==
    /\ sel_word # <<>>
    /\ user_found' = find_latest_user_recording(sel_word)
    /\ UNCHANGED <<norm_vars, audio_vars, sel_vars, played, rec_vars>>

\* Each folder is missing or empty, and a row is selected.
NoMatchInit ==
    /\ NormIdle
    /\ audio_isdir \in BOOLEAN
    /\ audio_files = {}
    /\ gen_saved = {}
    /\ \E row \in NoMatchRows : sel_word = row[1] /\ sel_filename = row[2]
    /\ played = NotRun
    /\ rec_isdir \in BOOLEAN
    /\ rec_listing = <<>>
    /\ rec_mtime = <<>>
    /\ user_found = NotRun

NoMatchNext == DoPlay \/ DoPlayUser

SpecNoMatch == NoMatchInit /\ [][NoMatchNext]_vars

RecChars == {"ye", "yo"}

\* The words of the word list in SpecRec.
RecWords == StringsUpTo(RecChars, MaxWord) \ {<<>>}

\* The files somebody may put into RECORDINGS_FOLDER by hand: WAV files and
\* a file the filter of find_latest_user_recording leaves out.
HandRecNames ==
    {stem \o <<"dot", "wav">> : stem \in StringsUpTo({"ye"}, MaxStem) \ {<<>>}}
        \cup {<<"ye", "dot", "mp3">>}

\* The modification times of the files.
Times == (0 - MaxTime)..MaxTime

\* The elements of a sequence.
Range(seq) == {seq[i] : i \in 1..Len(seq)}

\* seq with x put in at place pos.
InsertAt(seq, pos, x) == SubSeq(seq, 1, pos - 1) \o <<x>> \o SubSeq(seq, pos, Len(seq))

\* Whether record_audio wrote the file.
IsRecording(name) == \E w \in RecWords : name = RecName(w)

\* Nothing is recorded yet and no row is selected.
RecInit ==
    /\ NormIdle
    /\ AudioIdle
    /\ RecIdle

\* gui_flash_cards.on_select on the row <<rus, fname>>
OnSelect(row) ==
    /\ <<sel_word, sel_filename>> # row
    /\ sel_word' = row[1]
    /\ sel_filename' = row[2]
    /\ played' = NotRun
    /\ user_found' = NotRun
    /\ UNCHANGED <<norm_vars, audio_vars, rec_vars>>

\* gui_flash_cards.do_record: record_audio(sel_word) writes the file at time
\* now, later than every recording before it.  A new file takes any place in
\* the order of os.listdir.
DoRecord ==
    /\ sel_word # <<>>
    /\ LET out_wav == RecName(sel_word)
       IN  \E now \in 1..MaxTime :
             /\ \A f \in Range(rec_listing) : IsRecording(f) => rec_mtime[f] < now
             /\ rec_isdir' = TRUE
             /\ rec_mtime' = [f \in Range(rec_listing) \cup {out_wav} |-> IF f = out_wav THEN now ELSE rec_mtime[f]]
             /\ IF out_wav \in Range(rec_listing)
                THEN rec_listing' = rec_listing
                ELSE /\ Len(rec_listing) < MaxFiles
                     /\ \E pos \in 1..(Len(rec_listing) + 1) : rec_listing' = InsertAt(rec_listing, pos, out_wav)
    /\ user_found' = NotRun
    /\ UNCHANGED <<norm_vars, audio_vars, sel_vars, played>>

\* record_audio when the sound device raises: the folder is made, no file is.
DoRecordFails ==
    /\ sel_word # <<>>
    /\ ~rec_isdir
    /\ rec_isdir' = TRUE
    /\ user_found' = NotRun
    /\ UNCHANGED <<norm_vars, audio_vars, sel_vars, played, rec_listing, rec_mtime>>

\* Somebody puts a file with the modification time mtime into
\* RECORDINGS_FOLDER by hand.
PutRecording(name, mtime) ==
    /\ rec_isdir
    /\ name \notin Range(rec_listing)
    /\ Len(rec_listing) < MaxFiles
    /\ \E pos \in 1..(Len(rec_listing) + 1) : rec_listing' = InsertAt(rec_listing, pos, name)
    /\ rec_mtime' = [f \in Range(rec_listing) \cup {name} |-> IF f = name THEN mtime ELSE rec_mtime[f]]
    /\ user_found' = NotRun
    /\ UNCHANGED <<norm_vars, audio_vars, sel_vars, played, rec_isdir>>

RecNext ==
    \/ \E w \in RecWords : OnSelect(<<w, <<>>>>)
    \/ DoRecord
    \/ DoRecordFails
    \/ \E name \in HandRecNames, mtime \in Times : PutRecording(name, mtime)
    \/ DoPlayUser

SpecRec == RecInit /\ [][RecNext]_vars

\* The WAV files whose stem starts with sanitize_filename(display_word).
Matching(display_word) ==
    {f \in Range(rec_listing) : endswith(lower(f), <<"dot", "wav">>) /\ startswith(splitext(f)[1], sanitize_filename(display_word))}

\* Those of them with the greatest modification time.
Newest(display_word) == {f \in Matching(display_word) : \A g \in Matching(display_word) : rec_mtime[g] <= rec_mtime[f]}

\* The place of a file in the order of os.listdir.
PlaceOf(name) == CHOOSE i \in 1..Len(rec_listing) : rec_listing[i] = name

\* C7: find_latest_user_recording returns a WAV file whose stem starts with
\* the sanitized word and whose modification time is the greatest of these
\* files, and None exactly when there is no such file.
C7_LatestIsMaximum ==
    user_found # NotRun =>
        /\ user_found = None <=> Matching(sel_word) = {}
        /\ user_found # None => user_found \in Newest(sel_word)

\* C8 as stated: when several matching files share the greatest modification
\* time, the one os.listdir yields last is returned.
C8_TieLastObserved ==
    (user_found # NotRun /\ Cardinality(Newest(sel_word)) >= 2)
        => /\ user_found \in Newest(sel_word)
           /\ \A f \in Newest(sel_word) : PlaceOf(f) <= PlaceOf(user_found)

\* C8, amended: when several matching files share the greatest modification
\* time, the one os.listdir yields first is returned if that time is greater
\* than -1.0, and None if it is not.
C8_TieFirstObserved ==
    (user_found # NotRun /\ Cardinality(Newest(sel_word)) >= 2)
        => IF \E f \in Newest(sel_word) : rec_mtime[f] > InitialMtime
           THEN /\ user_found \in Newest(sel_word)
                /\ \A f \in Newest(sel_word) : PlaceOf(user_found) <= PlaceOf(f)
           ELSE user_found = None

\* C8's case: two matching files share the greatest time, and the one
\* returned is the first of the two.
C8_Witness ==
    /\ user_found \notin {NotRun, None}
    /\ Cardinality(Newest(sel_word)) >= 2
    /\ \E f \in Newest(sel_word) : PlaceOf(user_found) < PlaceOf(f)

\* C10: as long as record_audio alone has written to the folder,
\* find_latest_user_recording returns the recording of the selected word,
\* and None when that word has none.
C10_OwnRecording ==
    (user_found # NotRun /\ \A f \in Range(rec_listing) : IsRecording(f))
        => user_found = (IF RecName(sel_word) \in Range(rec_listing) THEN RecName(sel_word) ELSE None)

====
